---- MODULE Spec2Model ----
(***************************************************************************)
(* kloudflarelb: the LoadBalancer controller of pkg/loadbalancer.          *)
(*                                                                         *)
(* The model covers the Controller of controller.go: the informer event    *)
(* handlers, the rate limited work queue the controller is built on, the   *)
(* worker loops (processNextWorkItem, syncServices, handleErr) and the     *)
(* serviceTracker map.  The informer store hands out its own objects, so   *)
(* an assignment to service.Status in syncServices is an assignment to     *)
(* the stored object; it is modelled as such.                              *)
(***************************************************************************)
EXTENDS Integers, Sequences, FiniteSets, TLC

\* controller.go:29
maxRetries == 12

\* Run(workers, stopCh): number of worker loops.
NumWorkers == 2

\* Number of watch notifications the informer delivers in one behaviour.
MaxEvents == 2

\* Number of writeConfig calls in one behaviour, where it is called.
MaxWrites == 1

Workers == 1..NumWorkers

-----------------------------------------------------------------------------
(* Objects and keys *)

ServiceTypeLoadBalancer == "LoadBalancer"
ServiceTypeClusterIP == "ClusterIP"
ServiceTypes == {ServiceTypeLoadBalancer, ServiceTypeClusterIP}

\* Identity (ObjectMeta.Namespace, ObjectMeta.Name) of the Services the API
\* server serves.
Services ==
    { [namespace |-> "prod", name |-> "web-api"],
      [namespace |-> "api-prod", name |-> "web"] }

\* The tombstone the informer hands to the delete handler when its watch
\* missed the deletion and a relist found the object gone.
DeletedFinalStateUnknown(s) == [Key |-> <<s.namespace, s.name>>, Obj |-> s]

\* meta.Accessor(obj) succeeds: obj carries ObjectMeta.
HasObjectMeta(obj) == "name" \in DOMAIN obj

\* An object whose name holds the key separator. The API server validates
\* names; MetaNamespaceKeyFunc does not.
UnvalidatedService == [namespace |-> "prod", name |-> "web/api"]

\* strings.Split(name, "/") over the names of the model.
SplitName(name) == IF name = "web/api" THEN <<"web", "api">> ELSE <<name>>

\* A key "a/b/c" is held as its "/"-separated segments <<"a", "b", "c">>.
MetaNamespaceKeyFunc(meta) ==
    IF meta.namespace # ""
    THEN <<meta.namespace>> \o SplitName(meta.name)
    ELSE SplitName(meta.name)

\* cache.SplitMetaNamespaceKey: [namespace, name, err].
SplitMetaNamespaceKey(key) ==
    CASE Len(key) = 1 -> [namespace |-> "", name |-> key[1], err |-> FALSE]
      [] Len(key) = 2 -> [namespace |-> key[1], name |-> key[2], err |-> FALSE]
      [] OTHER -> [namespace |-> "", name |-> "", err |-> TRUE]

Keys == { MetaNamespaceKeyFunc(s) : s \in Services }
BadKey == MetaNamespaceKeyFunc(UnvalidatedService)
AllKeys == Keys \cup {BadKey}

ServiceOf(key) == CHOOSE s \in Services : MetaNamespaceKeyFunc(s) = key

\* Spec.ClusterIP is allocated by the API server and immutable.
ClusterIPOf(key) == IF key = <<"prod", "web-api">> THEN "10.0.0.5" ELSE "10.0.0.6"

\* Spec.Ports: one Service has a single port, the other has two.
PortsOf(key) == IF key = <<"prod", "web-api">> THEN <<80>> ELSE <<8443, 80>>

\* Status.LoadBalancer.Ingress as the informer can deliver it: empty, a
\* hostname set by an earlier run of the controller or by another party, or
\* an entry that holds an IP and no hostname.
ForeignIngress ==
    { <<>>,
      <<[hostname |-> "lb.example.com", ip |-> ""]>>,
      <<[hostname |-> "", ip |-> "192.0.2.1"]>> }

\* config.Config.Domain (flag "domain").
Domains == { "", "example.com" }

\* net.JoinHostPort(host, strconv.Itoa(port)) for IPv4 hosts.
JoinHostPort(host, port) == host \o ":" \o ToString(port)

\* The zero value of the ingress struct, returned for a key not in the map.
ZeroIngress == [hostname |-> "", service |-> ""]

NoKey == <<>>

\* Maps (the informer store, the Go map) are functions on the keys they hold.
EmptyMap == [k \in {} |-> NoKey]
MapPut(m, key, val) == [k \in DOMAIN m \cup {key} |-> IF k = key THEN val ELSE m[k]]
MapDelete(m, key) == [k \in DOMAIN m \ {key} |-> m[k]]

NoService == [type |-> "", clusterIP |-> "", ports |-> <<>>, ingress |-> <<>>]


NoSync == [service |-> NoService, entry |-> ZeroIngress]

\* config.Config.TunnelID (flag "tunnelID", default "").
TunnelID == ""

\* The configuration file: absent, or an inode and the content encoded
\* into it.
NoFile == [exists |-> FALSE, inode |-> 0, content |-> << >>]

\* yaml of a Configuration: the tunnel and the ingress rules, in order.
Encode(tunnel, ingressRules) == <<tunnel, ingressRules>>

\* Values of the history variable delivered: notifications are not
\* recorded, or none was delivered yet.
NotRecorded == << >>
NoNotification ==
    [handler |-> "none", key |-> NoKey, oldResourceVersion |-> 0,
     newResourceVersion |-> 0, deletionTimestampIsZero |-> TRUE]

-----------------------------------------------------------------------------
VARIABLES
    config,            \* Controller.config
    cache,             \* the informer store behind serviceLister: key -> object
    serviceTracker,    \* Controller.serviceTracker: key -> ingress
    queue,             \* workqueue: the ordered keys to hand out
    dirty,             \* workqueue: keys that need processing
    processing,        \* workqueue: keys handed out and not yet Done
    waitingForQueue,   \* delaying queue: keys of AddAfter not yet added
    failures,          \* ItemExponentialFailureRateLimiter.failures
    shuttingDown,      \* workqueue: ShutDown was called
    hasSynced,         \* servicesSynced()
    stopCh,            \* stopCh is closed
    runPc,             \* position of Run
    pc,                \* position of each worker loop
    wKey,              \* eKey of each worker
    wErr,              \* err of each worker
    wSvc,              \* *service of each worker, as syncServices left it
    wPath,             \* branch of syncServices each worker took
    nEvents,           \* notifications delivered so far
    \* History, read by the properties only:
    attempts,          \* syncServices calls per key since its last Forget
    eventSince,        \* keys a handler added since their first attempt
    unwritten,         \* keys whose stored object holds a status that
                       \* syncServices assigned and UpdateStatus did not deliver
    lastSync,          \* per key, the object and the entry of its last
                       \* successful reconciliation as a LoadBalancer
    mu,                \* Controller.mu is locked
    wcPc,              \* position of writeConfig
    wcIngress,         \* writeConfig: config.Ingress
    wcRange,           \* writeConfig: keys the range loop has yet to visit
    configFile,        \* the file at defaultFilename
    nWrites,           \* writeConfig calls so far
    unseen,            \* keys whose stored object changed with no Add by
                       \* the handler and no syncServices since
    delivered          \* the last notification a handler received, under
                       \* the specifications that record it

queueVars == <<queue, dirty, processing, waitingForQueue, failures, shuttingDown>>
runVars == <<hasSynced, stopCh, runPc>>
workerVars == <<pc, wKey, wErr, wSvc, wPath>>
configVars == <<mu, wcPc, wcIngress, wcRange, configFile, nWrites>>
historyVars == <<attempts, eventSince, unwritten, lastSync, unseen, delivered>>
vars == <<config, cache, serviceTracker, queue, dirty, processing, waitingForQueue,
          failures, shuttingDown, hasSynced, stopCh, runPc, pc, wKey, wErr, wSvc,
          wPath, nEvents, mu, wcPc, wcIngress, wcRange, configFile, nWrites,
          attempts, eventSince, unwritten, lastSync, unseen, delivered>>

-----------------------------------------------------------------------------
(* NewController *)

InitController ==
    /\ config \in { [Domain |-> d] : d \in Domains }
    /\ cache = EmptyMap
    /\ serviceTracker = EmptyMap
    /\ queue = << >>
    /\ dirty = {}
    /\ processing = {}
    /\ waitingForQueue = {}
    /\ failures = [k \in AllKeys |-> 0]
    /\ shuttingDown = FALSE
    /\ hasSynced = FALSE
    /\ stopCh = FALSE
    /\ runPc = "waitSync"
    /\ pc = [w \in Workers |-> "notStarted"]
    /\ wKey = [w \in Workers |-> NoKey]
    /\ wErr = [w \in Workers |-> "nil"]
    /\ wSvc = [w \in Workers |-> NoService]
    /\ wPath = [w \in Workers |-> "none"]
    /\ nEvents = 0
    /\ mu = FALSE
    /\ wcPc = "idle"
    /\ wcIngress = << >>
    /\ wcRange = {}
    /\ nWrites = 0
    /\ attempts = [k \in AllKeys |-> 0]
    /\ eventSince = {}
    /\ unwritten = {}
    /\ lastSync = [k \in AllKeys |-> NoSync]
    /\ unseen = {}

Init ==
    /\ InitController
    /\ delivered = NotRecorded
    /\ configFile = NoFile

-----------------------------------------------------------------------------
(* The work queue: workqueue.NewNamedRateLimitingQueue(                    *)
(* DefaultControllerRateLimiter(), controllerName)                         *)

\* Type.Add: the queue and the dirty set after Add(key).
AddQueue(key) ==
    IF shuttingDown \/ key \in dirty \/ key \in processing
    THEN queue
    ELSE Append(queue, key)

\* An Add that marks the key dirty after ShutDown too.
AddDirty_AfterShutDown(key) == dirty \cup {key}

AddDirty(key) ==
    IF shuttingDown THEN dirty ELSE dirty \cup {key}

\* A Done that forgets the key it was asked to queue again.
DoneQueue_NoRequeue(key) == queue

\* Type.Done(key): the queue after it. A key marked dirty while it was
\* processed is queued again.
DoneQueue(key) ==
    IF key \in dirty THEN Append(queue, key) ELSE queue

\* rateLimitingType.NumRequeues
NumRequeues(key) == failures[key]

\* rateLimitingType.Forget
Forget(key) == [failures EXCEPT ![key] = 0]

\* rateLimitingType.AddRateLimited: When(key) counts the failure and
\* AddAfter parks the key until its (positive) delay has passed.
AddRateLimitedFailures(key) == [failures EXCEPT ![key] = @ + 1]

AddRateLimitedWaiting(key) ==
    IF shuttingDown THEN waitingForQueue ELSE waitingForQueue \cup {key}

\* delayingType.waitingLoop: a parked key becomes ready and is added.
waitingLoop(key) ==
    /\ key \in waitingForQueue
    /\ ~shuttingDown
    /\ waitingForQueue' = waitingForQueue \ {key}
    /\ queue' = AddQueue(key)
    /\ dirty' = AddDirty(key)
    /\ UNCHANGED <<processing, failures, shuttingDown>>
    /\ UNCHANGED <<config, cache, serviceTracker, nEvents>>
    /\ UNCHANGED runVars
    /\ UNCHANGED configVars
    /\ UNCHANGED workerVars
    /\ UNCHANGED historyVars

-----------------------------------------------------------------------------
(* Event handlers, each run by the informer after it stored the object *)

\* onServiceAdd: TRUE when the handler adds the key of obj, which it does
\* unless MetaNamespaceKeyFunc returns an error.
onServiceAdd(obj) == HasObjectMeta(obj)

\* onServiceUpdate: TRUE when the handler adds the key of newObj.
onServiceUpdate(oldResourceVersion, newResourceVersion, deletionTimestampIsZero) ==
    ~(oldResourceVersion = newResourceVersion \/ ~deletionTimestampIsZero)

\* onServiceDelete: TRUE when the handler adds the key of obj, which it
\* does unless MetaNamespaceKeyFunc returns an error.
onServiceDelete(obj) == HasObjectMeta(obj)

\* The notification of handler h, as delivered records it.
Notification(h, key, oldRV, newRV, z) ==
    [handler |-> h, key |-> key, oldResourceVersion |-> oldRV,
     newResourceVersion |-> newRV, deletionTimestampIsZero |-> z]

\* The handler ran for the object of key and called c.queue.Add(key) or not.
Handled(key, adds, notification) ==
    /\ delivered' = IF delivered = NotRecorded THEN delivered ELSE notification
    /\ queue' = IF adds THEN AddQueue(key) ELSE queue
    /\ dirty' = IF adds THEN AddDirty(key) ELSE dirty
    /\ eventSince' = IF adds THEN eventSince \cup {key} ELSE eventSince
    /\ unseen' = IF adds THEN unseen \ {key}
                 ELSE IF cache' # cache THEN unseen \cup {key} ELSE unseen
    /\ nEvents' = nEvents + 1
    /\ UNCHANGED <<processing, waitingForQueue, failures, shuttingDown>>
    /\ UNCHANGED <<config, serviceTracker>>
    /\ UNCHANGED runVars
    /\ UNCHANGED configVars
    /\ UNCHANGED workerVars
    /\ UNCHANGED <<attempts, lastSync>>

\* The informer delivers at most MaxEvents notifications.
InformerRuns == nEvents < MaxEvents

NewObject(key, type, ing) ==
    [type |-> type, clusterIP |-> ClusterIPOf(key), ports |-> PortsOf(key), ingress |-> ing]

\* A Service is created (or listed at start): store it, call onServiceAdd.
InformerAdd(s, type, ing) ==
    LET key == MetaNamespaceKeyFunc(s) IN
    /\ InformerRuns
    /\ key \notin DOMAIN cache
    /\ cache' = MapPut(cache, key, NewObject(key, type, ing))
    /\ unwritten' = unwritten \ {key}
    /\ Handled(key, onServiceAdd(s), Notification("add", key, 0, nEvents + 1, TRUE))

\* A Service changed: the store replaces its object by the new one, which
\* has a new ResourceVersion, then onServiceUpdate(old, new) runs.
InformerUpdate(s, type, ing, deletionTimestampIsZero) ==
    LET key == MetaNamespaceKeyFunc(s) IN
    /\ InformerRuns
    /\ key \in DOMAIN cache
    /\ cache' = MapPut(cache, key, NewObject(key, type, ing))
    /\ unwritten' = unwritten \ {key}
    /\ Handled(key, onServiceUpdate(nEvents, nEvents + 1, deletionTimestampIsZero),
               Notification("update", key, nEvents, nEvents + 1, deletionTimestampIsZero))

\* Periodic resync: onServiceUpdate(obj, obj) with the stored object.
InformerResync(s) ==
    LET key == MetaNamespaceKeyFunc(s) IN
    /\ InformerRuns
    /\ key \in DOMAIN cache
    /\ UNCHANGED <<cache, unwritten>>
    /\ Handled(key, onServiceUpdate(nEvents, nEvents, TRUE),
               Notification("update", key, nEvents, nEvents, TRUE))

\* A Service was deleted: the store drops it, then onServiceDelete runs.
InformerDelete(s) ==
    LET key == MetaNamespaceKeyFunc(s) IN
    /\ InformerRuns
    /\ key \in DOMAIN cache
    /\ cache' = MapDelete(cache, key)
    /\ unwritten' = unwritten \ {key}
    /\ Handled(key, onServiceDelete(s), Notification("delete", key, nEvents, nEvents, TRUE))

\* The informer lost its watch, relisted and found a stored Service gone:
\* the store drops it and onServiceDelete runs with the tombstone.
InformerDeleteFinalStateUnknown(s) ==
    LET key == MetaNamespaceKeyFunc(s) IN
    /\ InformerRuns
    /\ key \in DOMAIN cache
    /\ cache' = MapDelete(cache, key)
    /\ unwritten' = unwritten \ {key}
    /\ Handled(key, onServiceDelete(DeletedFinalStateUnknown(s)),
               Notification("delete", key, nEvents, nEvents, TRUE))

\* An object reaches the informer whose name the API server did not
\* validate: onServiceAdd computes its key and adds it.
InformerAddUnvalidated ==
    LET key == MetaNamespaceKeyFunc(UnvalidatedService) IN
    /\ InformerRuns
    /\ key \notin DOMAIN cache
    /\ cache' = MapPut(cache, key, NewObject(key, ServiceTypeLoadBalancer, << >>))
    /\ unwritten' = unwritten \ {key}
    /\ Handled(key, onServiceAdd(UnvalidatedService), Notification("add", key, 0, nEvents + 1, TRUE))

-----------------------------------------------------------------------------
(* Run *)

\* The informer finished its initial list.
InformerSynced ==
    /\ ~hasSynced
    /\ hasSynced' = TRUE
    /\ UNCHANGED <<stopCh, runPc>>
    /\ UNCHANGED configVars
    /\ UNCHANGED <<config, cache, serviceTracker, nEvents>>
    /\ UNCHANGED queueVars
    /\ UNCHANGED workerVars
    /\ UNCHANGED historyVars

\* The caller closes stopCh.
CloseStopCh ==
    /\ ~stopCh
    /\ stopCh' = TRUE
    /\ UNCHANGED <<hasSynced, runPc>>
    /\ UNCHANGED configVars
    /\ UNCHANGED <<config, cache, serviceTracker, nEvents>>
    /\ UNCHANGED queueVars
    /\ UNCHANGED workerVars
    /\ UNCHANGED historyVars

\* Run starting the workers without waiting for the cache.
Run_StartWorkers_NoWait ==
    /\ runPc = "waitSync"
    /\ runPc' = "waitStop"
    /\ pc' = [w \in Workers |-> IF stopCh THEN "exited" ELSE "get"]
    /\ UNCHANGED <<hasSynced, stopCh>>
    /\ UNCHANGED configVars
    /\ UNCHANGED <<wKey, wErr, wSvc, wPath>>
    /\ UNCHANGED <<config, cache, serviceTracker, nEvents>>
    /\ UNCHANGED queueVars
    /\ UNCHANGED historyVars

\* WaitForNamedCacheSync returned true: start the workers. wait.Until runs
\* a worker unless stopCh is already closed.
Run_StartWorkers ==
    /\ runPc = "waitSync"
    /\ hasSynced
    /\ runPc' = "waitStop"
    /\ pc' = [w \in Workers |-> IF stopCh THEN "exited" ELSE "get"]
    /\ UNCHANGED <<hasSynced, stopCh>>
    /\ UNCHANGED configVars
    /\ UNCHANGED <<wKey, wErr, wSvc, wPath>>
    /\ UNCHANGED <<config, cache, serviceTracker, nEvents>>
    /\ UNCHANGED queueVars
    /\ UNCHANGED historyVars

\* WaitForNamedCacheSync returned false: Run returns the error; the
\* deferred queue.ShutDown runs.
Run_SyncError ==
    /\ runPc = "waitSync"
    /\ stopCh
    /\ runPc' = "error"
    /\ shuttingDown' = TRUE
    /\ UNCHANGED <<hasSynced, stopCh>>
    /\ UNCHANGED configVars
    /\ UNCHANGED <<queue, dirty, processing, waitingForQueue, failures>>
    /\ UNCHANGED <<config, cache, serviceTracker, nEvents>>
    /\ UNCHANGED workerVars
    /\ UNCHANGED historyVars

\* <-stopCh: Run returns nil; the deferred queue.ShutDown runs.
Run_Stop ==
    /\ runPc = "waitStop"
    /\ stopCh
    /\ runPc' = "returned"
    /\ shuttingDown' = TRUE
    /\ UNCHANGED <<hasSynced, stopCh>>
    /\ UNCHANGED configVars
    /\ UNCHANGED <<queue, dirty, processing, waitingForQueue, failures>>
    /\ UNCHANGED <<config, cache, serviceTracker, nEvents>>
    /\ UNCHANGED workerVars
    /\ UNCHANGED historyVars

-----------------------------------------------------------------------------
(* The service tracker *)

addService(key, ing) == MapPut(serviceTracker, key, ing)

getServiceIngress(key) ==
    IF key \in DOMAIN serviceTracker THEN serviceTracker[key] ELSE ZeroIngress

deleteService(key) == MapDelete(serviceTracker, key)

-----------------------------------------------------------------------------
(* Worker loops *)

\* processNextWorkItem with "c.queue.Done(eKey)" in place of
\* "defer c.queue.Done(eKey)": the key leaves processing before syncServices.
processNextWorkItem_Get_DoneNotDeferred(w) ==
    /\ pc[w] = "get"
    /\ queue # << >>
    /\ LET key == Head(queue) IN
        /\ queue' = Tail(queue)
        /\ processing' = processing \ {key}
        /\ dirty' = dirty \ {key}
        /\ wKey' = [wKey EXCEPT ![w] = key]
        /\ eventSince' = IF failures[key] = 0 THEN eventSince \ {key} ELSE eventSince
    /\ pc' = [pc EXCEPT ![w] = "sync"]
    /\ UNCHANGED <<waitingForQueue, failures, shuttingDown>>
    /\ UNCHANGED <<wErr, wSvc, wPath>>
    /\ UNCHANGED <<config, cache, serviceTracker, nEvents>>
    /\ UNCHANGED runVars
    /\ UNCHANGED configVars
    /\ UNCHANGED <<attempts, unwritten, lastSync, unseen, delivered>>

\* c.queue.Get() with an item: the item moves from queue/dirty to
\* processing, where it stays until the deferred Done.
processNextWorkItem_Get(w) ==
    /\ pc[w] = "get"
    /\ queue # << >>
    /\ LET key == Head(queue) IN
        /\ queue' = Tail(queue)
        /\ processing' = processing \cup {key}
        /\ dirty' = dirty \ {key}
        /\ wKey' = [wKey EXCEPT ![w] = key]
        /\ eventSince' = IF failures[key] = 0 THEN eventSince \ {key} ELSE eventSince
    /\ pc' = [pc EXCEPT ![w] = "sync"]
    /\ UNCHANGED <<waitingForQueue, failures, shuttingDown>>
    /\ UNCHANGED <<wErr, wSvc, wPath>>
    /\ UNCHANGED <<config, cache, serviceTracker, nEvents>>
    /\ UNCHANGED runVars
    /\ UNCHANGED configVars
    /\ UNCHANGED <<attempts, unwritten, lastSync, unseen, delivered>>

\* c.queue.Get() on an empty queue that was shut down: quit, worker returns
\* and wait.Until does not run it again, stopCh being closed.
processNextWorkItem_Quit(w) ==
    /\ pc[w] = "get"
    /\ queue = << >>
    /\ shuttingDown
    /\ pc' = [pc EXCEPT ![w] = "exited"]
    /\ UNCHANGED <<wKey, wErr, wSvc, wPath>>
    /\ UNCHANGED <<config, cache, serviceTracker, nEvents>>
    /\ UNCHANGED queueVars
    /\ UNCHANGED runVars
    /\ UNCHANGED configVars
    /\ UNCHANGED historyVars

\* lbHostname with the configured domain appended.
lbHostname_WithDomain(service) ==
    IF config.Domain # ""
    THEN service.name \o "-" \o service.namespace \o "." \o config.Domain
    ELSE service.name \o "-" \o service.namespace

\* controller.go:198-201
lbHostname(service) == service.name \o "-" \o service.namespace

\* controller.go:171
isUntracked(ing) == ing.hostname = "" \/ ing.service = ""

\* controller.go:193, 211
internalAddress(service) == JoinHostPort(service.clusterIP, service.ports[1])

\* adoptedIngress reading i.IP where the code reads i.Hostname.
adoptedIngress_IP(service) ==
    [hostname |-> service.ingress[1].ip, service |-> internalAddress(service)]

\* controller.go:188-194: the entry built from the first ingress of the status
adoptedIngress(service) ==
    [hostname |-> service.ingress[1].hostname, service |-> internalAddress(service)]

\* assignedIngress tracking the hostname under the configured domain, the
\* status holding the bare one.
assignedIngress_WithDomain(key, service) ==
    [hostname |-> lbHostname_WithDomain(ServiceOf(key)), service |-> internalAddress(service)]

\* controller.go:208-212
assignedIngress(key, service) ==
    [hostname |-> lbHostname(ServiceOf(key)), service |-> internalAddress(service)]

\* controller.go:176: the status with no load balancer ingress
clearedStatus(service) == [service EXCEPT !.ingress = << >>]

\* controller.go:202: the status with the computed hostname
assignedStatus(key, service) ==
    [service EXCEPT !.ingress = <<[hostname |-> lbHostname(ServiceOf(key)), ip |-> ""]>>]

\* syncServices returns err on branch path.
Return(w, err, path) ==
    /\ wErr' = [wErr EXCEPT ![w] = err]
    /\ wPath' = [wPath EXCEPT ![w] = path]
    /\ pc' = [pc EXCEPT ![w] = "handleErr"]

\* syncServices assigned status to the stored object of key and calls
\* UpdateStatus with it.
CallUpdateStatus(w, key, status, path) ==
    /\ cache' = MapPut(cache, key, status)
    /\ unwritten' = unwritten \cup {key}
    /\ wSvc' = [wSvc EXCEPT ![w] = status]
    /\ wPath' = [wPath EXCEPT ![w] = path]
    /\ pc' = [pc EXCEPT ![w] = "updateStatus"]
    /\ UNCHANGED wErr

\* syncServices from its start to its return or to its UpdateStatus call.
\* getServiceIngress, addService and deleteService lock c.mu: a branch that
\* calls one waits while the mutex is held.
syncServices(w) ==
    LET key == wKey[w]
        split == SplitMetaNamespaceKey(key)
        found == key \in DOMAIN cache
        service == IF found THEN cache[key] ELSE NoService
        ing == getServiceIngress(key)
    IN
    /\ pc[w] = "sync"
    /\ \/ /\ split.err
          /\ Return(w, "errKey", "badKey")
          /\ UNCHANGED <<cache, serviceTracker, wSvc, unwritten>>
       \/ /\ ~split.err
          /\ ~found \/ service.type # ServiceTypeLoadBalancer
          /\ ~mu
          /\ isUntracked(ing)
          /\ wSvc' = [wSvc EXCEPT ![w] = service]
          /\ Return(w, "nil", "untracked")
          /\ UNCHANGED <<cache, serviceTracker, unwritten>>
       \/ /\ ~split.err
          /\ ~found
          /\ ~mu
          /\ ~isUntracked(ing)
          /\ serviceTracker' = deleteService(key)
          /\ wSvc' = [wSvc EXCEPT ![w] = service]
          /\ Return(w, "nil", "released")
          /\ UNCHANGED <<cache, unwritten>>
       \/ /\ ~split.err
          /\ found /\ service.type # ServiceTypeLoadBalancer
          /\ ~mu
          /\ ~isUntracked(ing)
          /\ CallUpdateStatus(w, key, clearedStatus(service), "clear")
          /\ UNCHANGED serviceTracker
       \/ /\ ~split.err
          /\ found /\ service.type = ServiceTypeLoadBalancer
          /\ service.ingress # << >>
          /\ ~mu
          /\ serviceTracker' = addService(key, adoptedIngress(service))
          /\ wSvc' = [wSvc EXCEPT ![w] = service]
          /\ Return(w, "nil", "adopt")
          /\ UNCHANGED <<cache, unwritten>>
       \/ /\ ~split.err
          /\ found /\ service.type = ServiceTypeLoadBalancer
          /\ service.ingress = << >>
          /\ CallUpdateStatus(w, key, assignedStatus(key, service), "assign")
          /\ UNCHANGED serviceTracker
    /\ attempts' = [attempts EXCEPT ![key] = @ + 1]
    /\ unseen' = unseen \ {key}
    /\ UNCHANGED <<wKey, delivered>>
    /\ UNCHANGED <<config, nEvents>>
    /\ UNCHANGED queueVars
    /\ UNCHANGED runVars
    /\ UNCHANGED configVars
    /\ UNCHANGED <<eventSince, lastSync>>

\* syncServices changing the tracker before it looks at the error of
\* UpdateStatus.
syncServices_UpdateStatus_TrackerFirst(w, ok) ==
    LET key == wKey[w] IN
    /\ pc[w] = "updateStatus"
    /\ ~mu
    /\ serviceTracker' =
          IF wPath[w] = "clear" THEN deleteService(key)
          ELSE addService(key, assignedIngress(key, wSvc[w]))
    /\ \/ /\ ~ok
          /\ Return(w, "errUpdate", wPath[w])
          /\ UNCHANGED unwritten
       \/ /\ ok
          /\ unwritten' = unwritten \ {key}
          /\ Return(w, "nil", wPath[w])
    /\ UNCHANGED <<wKey, wSvc>>
    /\ UNCHANGED <<config, cache, nEvents>>
    /\ UNCHANGED queueVars
    /\ UNCHANGED runVars
    /\ UNCHANGED configVars
    /\ UNCHANGED <<attempts, eventSince, lastSync, unseen, delivered>>

\* UpdateStatus returns, with an error or not, and syncServices runs to its
\* return.
syncServices_UpdateStatus(w, ok) ==
    LET key == wKey[w] IN
    /\ pc[w] = "updateStatus"
    /\ \/ /\ ~ok
          /\ Return(w, "errUpdate", wPath[w])
          /\ UNCHANGED <<serviceTracker, unwritten>>
       \/ /\ ok
          /\ wPath[w] = "clear"
          /\ ~mu
          /\ serviceTracker' = deleteService(key)
          /\ unwritten' = unwritten \ {key}
          /\ Return(w, "nil", wPath[w])
       \/ /\ ok
          /\ wPath[w] = "assign"
          /\ ~mu
          /\ serviceTracker' = addService(key, assignedIngress(key, wSvc[w]))
          /\ unwritten' = unwritten \ {key}
          /\ Return(w, "nil", wPath[w])
    /\ UNCHANGED <<wKey, wSvc>>
    /\ UNCHANGED <<config, cache, nEvents>>
    /\ UNCHANGED queueVars
    /\ UNCHANGED runVars
    /\ UNCHANGED configVars
    /\ UNCHANGED <<attempts, eventSince, lastSync, unseen, delivered>>

\* handleErr retrying one time more than the code does.
shouldRetry_Inclusive(key) == NumRequeues(key) <= maxRetries

\* controller.go:136
shouldRetry(key) == NumRequeues(key) < maxRetries

\* The reconciliation of w, as lastSync records it.
SyncRecord(w) ==
    IF wPath[w] \in {"adopt", "assign"}
    THEN [service |-> wSvc[w], entry |-> getServiceIngress(wKey[w])]
    ELSE NoSync

\* handleErr(err, key): what it does to the rate limiter and to the
\* delaying queue.
handleErr(w) ==
    LET key == wKey[w] IN
    \/ /\ wErr[w] = "nil"
       /\ failures' = Forget(key)
       /\ attempts' = [attempts EXCEPT ![key] = 0]
       /\ lastSync' = [lastSync EXCEPT ![key] = SyncRecord(w)]
       /\ UNCHANGED waitingForQueue
    \/ /\ wErr[w] # "nil"
       /\ shouldRetry(key)
       /\ failures' = AddRateLimitedFailures(key)
       /\ waitingForQueue' = AddRateLimitedWaiting(key)
       /\ UNCHANGED <<attempts, lastSync>>
    \/ /\ wErr[w] # "nil"
       /\ ~shouldRetry(key)
       /\ failures' = Forget(key)
       /\ attempts' = [attempts EXCEPT ![key] = 0]
       /\ UNCHANGED <<waitingForQueue, lastSync>>

\* processNextWorkItem after syncServices returned: handleErr, return, the
\* deferred c.queue.Done(eKey), and worker calls processNextWorkItem again.
processNextWorkItem_Done(w) ==
    LET key == wKey[w] IN
    /\ pc[w] = "handleErr"
    /\ handleErr(w)
    /\ processing' = processing \ {key}
    /\ queue' = DoneQueue(key)
    /\ pc' = [pc EXCEPT ![w] = "get"]
    /\ wKey' = [wKey EXCEPT ![w] = NoKey]
    /\ wErr' = [wErr EXCEPT ![w] = "nil"]
    /\ wSvc' = [wSvc EXCEPT ![w] = NoService]
    /\ wPath' = [wPath EXCEPT ![w] = "none"]
    /\ UNCHANGED <<dirty, shuttingDown>>
    /\ UNCHANGED <<config, cache, serviceTracker, nEvents>>
    /\ UNCHANGED runVars
    /\ UNCHANGED configVars
    /\ UNCHANGED <<eventSince, unwritten, unseen, delivered>>

-----------------------------------------------------------------------------
(* writeConfig and cloudflared.Configuration *)

\* Configuration.AddIngress: c.Ingress with the rule appended.
AddIngress(ingressRules, hostname, service) ==
    Append(ingressRules, [Hostname |-> hostname, Service |-> service])

\* sameFile(path1, path2): both files exist and os.SameFile tells they are
\* one file.
sameFile(file1, file2) ==
    /\ file1.exists
    /\ file2.exists
    /\ file1.inode = file2.inode

\* ioutil.TempFile and the Encode into it: a new file, holding the yaml of
\* the configuration. The file left by an earlier process has inode 0.
TempFile(ingressRules) ==
    [exists |-> TRUE, inode |-> nWrites, content |-> Encode(TunnelID, ingressRules)]

\* Configuration.Write: the file at c.path after it. renameOk tells whether
\* os.Rename succeeds.
Write(ingressRules, renameOk) ==
    LET tempFile == TempFile(ingressRules) IN
    IF sameFile(tempFile, configFile) THEN configFile
    ELSE IF renameOk THEN tempFile
    ELSE configFile

\* writeConfig that reads the map without taking c.mu.
writeConfig_Lock_NoMutex ==
    /\ wcPc = "idle"
    /\ nWrites < MaxWrites
    /\ mu' = mu
    /\ wcPc' = "range"
    /\ wcIngress' = << >>
    /\ wcRange' = DOMAIN serviceTracker
    /\ nWrites' = nWrites + 1
    /\ UNCHANGED configFile
    /\ UNCHANGED <<config, cache, serviceTracker, nEvents>>
    /\ UNCHANGED queueVars
    /\ UNCHANGED runVars
    /\ UNCHANGED workerVars
    /\ UNCHANGED historyVars

\* writeConfig is called: c.mu.Lock(), NewFromConfig, and the range loop
\* starts over the keys the map holds.
writeConfig_Lock ==
    /\ wcPc = "idle"
    /\ nWrites < MaxWrites
    /\ ~mu
    /\ mu' = TRUE
    /\ wcPc' = "range"
    /\ wcIngress' = << >>
    /\ wcRange' = DOMAIN serviceTracker
    /\ nWrites' = nWrites + 1
    /\ UNCHANGED configFile
    /\ UNCHANGED <<config, cache, serviceTracker, nEvents>>
    /\ UNCHANGED queueVars
    /\ UNCHANGED runVars
    /\ UNCHANGED workerVars
    /\ UNCHANGED historyVars

\* One iteration of the range loop, in the order the Go map yields: a key
\* deleted meanwhile is not yielded.
writeConfig_AddIngress(key) ==
    /\ wcPc = "range"
    /\ key \in wcRange
    /\ wcRange' = wcRange \ {key}
    /\ wcIngress' =
          IF key \in DOMAIN serviceTracker
          THEN AddIngress(wcIngress, serviceTracker[key].hostname, serviceTracker[key].service)
          ELSE wcIngress
    /\ UNCHANGED <<mu, wcPc, configFile, nWrites>>
    /\ UNCHANGED <<config, cache, serviceTracker, nEvents>>
    /\ UNCHANGED queueVars
    /\ UNCHANGED runVars
    /\ UNCHANGED workerVars
    /\ UNCHANGED historyVars

\* The range loop ended.
writeConfig_RangeEnd ==
    /\ wcPc = "range"
    /\ wcRange = {}
    /\ wcPc' = "write"
    /\ UNCHANGED <<mu, wcIngress, wcRange, configFile, nWrites>>
    /\ UNCHANGED <<config, cache, serviceTracker, nEvents>>
    /\ UNCHANGED queueVars
    /\ UNCHANGED runVars
    /\ UNCHANGED workerVars
    /\ UNCHANGED historyVars

\* config.Write(), its error dropped, and the deferred c.mu.Unlock().
writeConfig_Write(renameOk) ==
    /\ wcPc = "write"
    /\ configFile' = Write(wcIngress, renameOk)
    /\ mu' = FALSE
    /\ wcPc' = "idle"
    /\ wcIngress' = << >>
    /\ UNCHANGED <<wcRange, nWrites>>
    /\ UNCHANGED <<config, cache, serviceTracker, nEvents>>
    /\ UNCHANGED queueVars
    /\ UNCHANGED runVars
    /\ UNCHANGED workerVars
    /\ UNCHANGED historyVars

-----------------------------------------------------------------------------
Next ==
    \/ InformerSynced
    \/ CloseStopCh
    \/ Run_StartWorkers
    \/ Run_SyncError
    \/ Run_Stop
    \/ \E s \in Services, t \in ServiceTypes, i \in ForeignIngress : InformerAdd(s, t, i)
    \/ \E s \in Services, t \in ServiceTypes, i \in ForeignIngress, z \in BOOLEAN :
          InformerUpdate(s, t, i, z)
    \/ \E s \in Services : InformerResync(s)
    \/ \E s \in Services : InformerDelete(s)
    \/ \E k \in AllKeys : waitingLoop(k)
    \/ \E w \in Workers : processNextWorkItem_Get(w)
    \/ \E w \in Workers : processNextWorkItem_Quit(w)
    \/ \E w \in Workers : syncServices(w)
    \/ \E w \in Workers, ok \in BOOLEAN : syncServices_UpdateStatus(w, ok)
    \/ \E w \in Workers : processNextWorkItem_Done(w)

Spec == Init /\ [][Next]_vars

\* The same controller behind an informer that also delivers an object
\* with an unvalidated name.
NextUnvalidated ==
    \/ Next
    \/ InformerAddUnvalidated

SpecUnvalidated == Init /\ [][NextUnvalidated]_vars

\* The same controller behind an informer that relists after a lost watch,
\* the notifications being recorded.
InitRelist ==
    /\ InitController
    /\ delivered = NoNotification
    /\ configFile = NoFile

NextRelist ==
    \/ Next
    \/ \E s \in Services : InformerDeleteFinalStateUnknown(s)

SpecRelist == InitRelist /\ [][NextRelist]_vars

\* The controller with a caller of writeConfig, which the repository does
\* not have: writeConfig runs at any time, at most MaxWrites times. The
\* file may be the one an earlier process left for an empty tracker.
OldFile == [exists |-> TRUE, inode |-> 0, content |-> Encode(TunnelID, << >>)]

InitConfigSync ==
    /\ InitController
    /\ delivered = NotRecorded
    /\ configFile \in {NoFile, OldFile}

NextConfigSync ==
    \/ Next
    \/ writeConfig_Lock
    \/ \E k \in Keys : writeConfig_AddIngress(k)
    \/ writeConfig_RangeEnd
    \/ \E renameOk \in BOOLEAN : writeConfig_Write(renameOk)

SpecConfigSync == InitConfigSync /\ [][NextConfigSync]_vars

\* writeConfig running next to the reconciliations of a controller whose
\* status writes the API server accepts and whose stopCh stays open.
NextSnapshot ==
    \/ InformerSynced
    \/ Run_StartWorkers
    \/ \E s \in Services, t \in ServiceTypes, i \in ForeignIngress : InformerAdd(s, t, i)
    \/ \E s \in Services, t \in ServiceTypes, i \in ForeignIngress, z \in BOOLEAN :
          InformerUpdate(s, t, i, z)
    \/ \E s \in Services : InformerDelete(s)
    \/ \E w \in Workers : processNextWorkItem_Get(w)
    \/ \E w \in Workers : syncServices(w)
    \/ \E w \in Workers : syncServices_UpdateStatus(w, TRUE)
    \/ \E w \in Workers : processNextWorkItem_Done(w)
    \/ writeConfig_Lock
    \/ \E k \in Keys : writeConfig_AddIngress(k)
    \/ writeConfig_RangeEnd
    \/ \E renameOk \in BOOLEAN : writeConfig_Write(renameOk)

SpecSnapshot == Init /\ [][NextSnapshot]_vars

-----------------------------------------------------------------------------
(* Properties *)

LoadBalancer(service) == service.type = ServiceTypeLoadBalancer

\* Worker w holds a key: Get handed it out and Done was not called yet.
Holds(w) == pc[w] \in {"sync", "updateStatus", "handleErr"}

\* Worker w is inside syncServices.
InSync(w) == pc[w] \in {"sync", "updateStatus"}

\* The address clusterIP:firstPort of the Service of key.
FirstPortAddress(key) == JoinHostPort(ClusterIPOf(key), Head(PortsOf(key)))

\* C1: no two workers hold the same key at the same time: a key handed out
\* by Get is not handed out again before Done(key), so no two syncServices
\* of one key are in progress together.
C1_NoConcurrentSync ==
    \A w1, w2 \in Workers :
        (w1 # w2 /\ Holds(w1) /\ Holds(w2)) => wKey[w1] # wKey[w2]

\* A key was added again while a worker is inside syncServices for it and
\* another worker waits in Get.
C1_Witness ==
    \E w1, w2 \in Workers :
        /\ w1 # w2
        /\ InSync(w1)
        /\ wKey[w1] \in dirty
        /\ pc[w2] = "get"

\* The object syncServices of w read, before it assigned any status.
ObjectRead(w) ==
    IF wPath[w] = "assign" THEN [wSvc[w] EXCEPT !.ingress = << >>] ELSE wSvc[w]

\* C3: when syncServices finds a LoadBalancer object equal to the one the
\* last successful reconciliation of the key left, it issues no
\* UpdateStatus and the tracker entry is the one that reconciliation left.
C3_Idempotent ==
    \A w \in Workers :
        ( /\ pc[w] \in {"updateStatus", "handleErr"}
          /\ wPath[w] \in {"adopt", "assign"}
          /\ lastSync[wKey[w]] # NoSync
          /\ ObjectRead(w) = lastSync[wKey[w]].service )
        => /\ pc[w] = "handleErr"
           /\ wPath[w] = "adopt"
           /\ wErr[w] = "nil"
           /\ wKey[w] \in DOMAIN serviceTracker
           /\ serviceTracker[wKey[w]] = lastSync[wKey[w]].entry

\* A second reconciliation of an unchanged object returned, the first one
\* having assigned the hostname.
C3_Witness ==
    \E w \in Workers :
        /\ pc[w] = "handleErr"
        /\ wPath[w] = "adopt"
        /\ lastSync[wKey[w]] # NoSync
        /\ wSvc[w] = lastSync[wKey[w]].service
        /\ wSvc[w].ingress[1].hostname = lbHostname(ServiceOf(wKey[w]))
        /\ config.Domain # ""

C4_AdoptionStep(w) ==
    LET key == wKey[w] IN
    ( /\ pc[w] = "sync"
      /\ pc'[w] # "sync"
      /\ key \in DOMAIN cache
      /\ LoadBalancer(cache[key])
      /\ cache[key].ingress # << >>
      /\ cache[key].ingress[1].hostname # "" )
    => /\ pc'[w] = "handleErr"
       /\ wErr'[w] = "nil"
       /\ key \in DOMAIN serviceTracker'
       /\ serviceTracker'[key] =
             [hostname |-> cache[key].ingress[1].hostname, service |-> FirstPortAddress(key)]
       /\ cache' = cache

\* C4: syncServices of a LoadBalancer object whose status holds a hostname H
\* returns nil without calling UpdateStatus, leaves the tracker entry
\* {H, clusterIP:firstPort} and leaves the status as it was.
C4_Adoption == [][\A w \in Workers : C4_AdoptionStep(w)]_vars

\* A hostname that is not the computed one was adopted for a key no
\* reconciliation had tracked before.
C4_Witness ==
    \E w \in Workers :
        /\ pc[w] = "handleErr"
        /\ wPath[w] = "adopt"
        /\ lastSync[wKey[w]] = NoSync
        /\ wSvc[w].ingress[1].hostname = "lb.example.com"
        /\ serviceTracker[wKey[w]].hostname = "lb.example.com"

Quiescent(key) ==
    /\ \A i \in 1..Len(queue) : queue[i] # key
    /\ key \notin dirty
    /\ key \notin processing
    /\ key \notin waitingForQueue

\* The object of key is stored, is a LoadBalancer and has a load balancer
\* ingress in its status.
Qualifies(key) ==
    /\ key \in DOMAIN cache
    /\ LoadBalancer(cache[key])
    /\ cache[key].ingress # << >>

\* The tracker holds for key an entry that getServiceIngress callers take
\* as one.
Tracked(key) ==
    key \in DOMAIN serviceTracker /\ ~isUntracked(serviceTracker[key])

\* C2: while the queue accepts keys, a key with no reconciliation pending
\* or in flight, whose every change was reconciled or is queued, is
\* tracked if and only if its object qualifies. Entries with an empty
\* hostname, adopted from a status that holds an IP only, are left out.
C2_TrackerInvariant ==
    \A key \in Keys :
        ( /\ ~shuttingDown
          /\ Quiescent(key)
          /\ key \notin unseen
          /\ key \in DOMAIN serviceTracker => Tracked(key)
          /\ Qualifies(key) => cache[key].ingress[1].hostname # "" )
        => (Tracked(key) <=> Qualifies(key))

\* C6: a successful reconciliation that found the object of its key
\* missing or not a LoadBalancer leaves no tracker entry for the key.
C6_EligibilityLoss ==
    \A w \in Workers :
        ( /\ pc[w] = "handleErr"
          /\ wErr[w] = "nil"
          /\ wPath[w] \in {"untracked", "released", "clear"} )
        => wKey[w] \notin DOMAIN serviceTracker

\* C7 as claimed: syncServices is attempted at most maxRetries times for a
\* key between two Forgets, the key being dropped at the 12th failure.
C7_TwelveAttempts ==
    \A key \in AllKeys : attempts[key] <= maxRetries

C7_HandleErrStep(w) ==
    LET key == wKey[w] IN
    (pc[w] = "handleErr" /\ pc'[w] # "handleErr" /\ wErr[w] # "nil")
    => /\ attempts[key] = failures[key] + 1
       /\ attempts[key] <= maxRetries + 1
       /\ attempts[key] <= maxRetries =>
             /\ failures'[key] = failures[key] + 1
             /\ shuttingDown \/ key \in waitingForQueue'
       /\ attempts[key] = maxRetries + 1 =>
             /\ failures'[key] = 0
             /\ waitingForQueue' = waitingForQueue
             /\ key \notin eventSince => Quiescent(key)'

\* C7, amended: a key whose reconciliation fails every time is attempted
\* maxRetries + 1 = 13 times: each of the first 12 failures counts a requeue
\* and parks the key with AddRateLimited; the 13th drops it, Forget resets
\* the counter, and unless a handler added the key meanwhile it is neither
\* queued, dirty nor parked afterwards.
C7_RetryBound == [][\A w \in Workers : C7_HandleErrStep(w)]_vars

\* The 13th attempt of a key failed and no handler added the key since its
\* first attempt.
C7_Witness ==
    \E w \in Workers :
        /\ pc[w] = "handleErr"
        /\ wErr[w] = "errUpdate"
        /\ attempts[wKey[w]] = maxRetries + 1
        /\ failures[wKey[w]] = maxRetries
        /\ wKey[w] \notin eventSince

\* C8: when UpdateStatus failed for a LoadBalancer object and no handler
\* added its key since, the retry that returns nil does so after an
\* UpdateStatus call that succeeded.
C8_RetryWritesAgain ==
    \A w \in Workers :
        ( /\ pc[w] = "handleErr"
          /\ wErr[w] = "nil"
          /\ LoadBalancer(wSvc[w])
          /\ attempts[wKey[w]] > 1
          /\ wKey[w] \notin eventSince )
        => wPath[w] = "assign"

\* C9: a key that SplitMetaNamespaceKey rejects is never retried: handleErr
\* does not call AddRateLimited for it and it is attempted once.
C9_BadKeyNotRetried ==
    /\ failures[BadKey] = 0
    /\ BadKey \notin waitingForQueue
    /\ attempts[BadKey] <= 1

\* The number of times key is in q.
Occurrences(q, key) == Cardinality({i \in 1..Len(q) : q[i] = key})

\* The number of times key is in the queue.
InQueue(key) == Occurrences(queue, key)

\* C10: a key added while it is in flight stays marked dirty and is queued
\* again by Done; a key that needs processing is queued exactly once or in
\* flight, however many times it was added.
C10_NoLostEvent ==
    \A key \in AllKeys :
        /\ InQueue(key) <= 1
        /\ InQueue(key) = 1 => (key \in dirty /\ key \notin processing)
        /\ (key \in dirty /\ key \notin processing) => InQueue(key) = 1

\* A handler added a key while a worker held it, syncServices having
\* returned: the key is marked dirty and is not in the queue until Done.
C10_Witness ==
    \E w \in Workers :
        /\ pc[w] = "handleErr"
        /\ wKey[w] \in processing
        /\ wKey[w] \in dirty
        /\ InQueue(wKey[w]) = 0
        /\ nEvents = 2

\* The handler of the notification delivered called c.queue.Add(key).
C11_Wanted(n) ==
    \/ n.handler \in {"add", "delete"}
    \/ /\ n.handler = "update"
       /\ n.oldResourceVersion # n.newResourceVersion
       /\ n.deletionTimestampIsZero

C11_IngestStep ==
    nEvents' # nEvents =>
        LET n == delivered'
            key == n.key
        IN
        /\ (C11_Wanted(n) /\ ~shuttingDown) =>
               (key \in dirty' /\ (key \in processing' \/ Occurrences(queue', key) = 1))
        /\ ~C11_Wanted(n) => (queue' = queue /\ dirty' = dirty)
        /\ Len(queue') <= Len(queue) + 1
        /\ \A k \in AllKeys \ {key} : Occurrences(queue', k) = Occurrences(queue, k)
        /\ serviceTracker' = serviceTracker
        /\ pc' = pc
        /\ unwritten' \subseteq unwritten

\* C11: an add or a delete notification leaves the key of its resource
\* marked for processing; an update notification does so if and only if the
\* ResourceVersions differ and the new object has no deletion timestamp; a
\* handler inserts at most one item and neither touches the tracker nor
\* starts a status write.
C11_EventIngest == [][C11_IngestStep]_vars

\* The rule writeConfig renders for a tracker entry.
RuleOf(entry) == [Hostname |-> entry.hostname, Service |-> entry.service]

\* ingressRules holds exactly one rule for each of the keys, each the rule
\* of the entry the tracker holds for the key.
IsRendering(ingressRules, keys) ==
    /\ keys \subseteq DOMAIN serviceTracker
    /\ Len(ingressRules) = Cardinality(keys)
    /\ \E f \in [1..Len(ingressRules) -> keys] :
          /\ \A i, j \in 1..Len(ingressRules) : i # j => f[i] # f[j]
          /\ \A i \in 1..Len(ingressRules) : ingressRules[i] = RuleOf(serviceTracker[f[i]])

\* C12: from its Lock to its Unlock writeConfig sees one tracker: the rules
\* it has rendered are those of the entries it has visited, the keys it has
\* yet to visit are the other entries, and the list handed to Write holds
\* one rule per entry, none stale and none missing.
C12_SnapshotFidelity ==
    wcPc \in {"range", "write"} =>
        /\ wcRange \subseteq DOMAIN serviceTracker
        /\ IsRendering(wcIngress, DOMAIN serviceTracker \ wcRange)
        /\ wcPc = "write" => IsRendering(wcIngress, DOMAIN serviceTracker)

\* writeConfig is about to write one rule while the reconciliation that
\* assigns a hostname to the other Service has its status written and is
\* to call addService.
C12_Witness ==
    /\ wcPc = "write"
    /\ Len(wcIngress) = 1
    /\ \E w \in Workers :
          /\ pc[w] = "updateStatus"
          /\ wPath[w] = "assign"
          /\ wKey[w] \notin DOMAIN serviceTracker


\* The step of writeConfig in which Configuration.Write runs.
C13_WriteStep == wcPc = "write" /\ wcPc' = "idle"

\* C13: Configuration.Write renames the temporary file over the target path
\* only if the rendered content differs from the content on disk; when the
\* two are equal the target file is left untouched.
C13_ChangeGatedWrite ==
    [][(/\ C13_WriteStep
        /\ configFile.exists
        /\ configFile.content = Encode(TunnelID, wcIngress))
          => configFile' = configFile]_vars

\* No reconciliation is queued, waiting for a retry or in progress.
NothingPending ==
    /\ queue = << >>
    /\ dirty = {}
    /\ waitingForQueue = {}
    /\ \A w \in Workers : ~Holds(w)

\* C14: after the reconciliations that inserted, changed or removed tracker
\* entries, writeConfig is invoked, so that once nothing is pending the
\* configuration file lists exactly the entries of the tracker.
C14_ConfigSynchronized ==
    ( /\ NothingPending
      /\ DOMAIN serviceTracker # {}
      /\ \A key \in DOMAIN serviceTracker : serviceTracker[key].hostname # "" )
        => /\ nWrites > 0
           /\ configFile.exists
           /\ IsRendering(configFile.content[2], DOMAIN serviceTracker)

\* Worker w starts a reconciliation: Get handed it a key.
Starts(w) == pc[w] = "get" /\ pc'[w] = "sync"

\* C15 as stated: once stopCh is closed and the queue is shut down, Get
\* yields no further work, so no reconciliation of a new key is started.
C15_NoWorkAfterShutDown ==
    [][shuttingDown => \A w \in Workers : ~Starts(w)]_vars

C15_ShutDownStep ==
    shuttingDown =>
        /\ shuttingDown'
        /\ dirty' \subseteq dirty
        /\ waitingForQueue' \subseteq waitingForQueue
        /\ \A w \in Workers :
              /\ Starts(w) => (queue # << >> /\ wKey'[w] = Head(queue) /\ wKey'[w] \in dirty)
              /\ (pc[w] = "get" /\ pc'[w] = "exited") => queue = << >>
              /\ Holds(w) =>
                    \/ Holds(w)' /\ wKey'[w] = wKey[w] /\ wKey[w] \in processing'
                    \/ pc[w] = "handleErr" /\ pc'[w] = "get" /\ wKey[w] \notin processing'

\* C15, amended: once stopCh is closed and the queue is shut down, the
\* queue accepts no key any more, Get hands out the keys that are still
\* queued and tells a worker to quit only when the queue is empty, and a
\* reconciliation in flight goes on to handleErr and Done(key): no worker
\* leaves its loop while it holds a key.
C15_ShutDown == [][C15_ShutDownStep]_vars

\* The queue was shut down with a key still queued: one worker is about to
\* call Get, the other is inside a reconciliation.
C15_Witness ==
    /\ shuttingDown
    /\ queue # << >>
    /\ \E w1, w2 \in Workers :
          /\ pc[w1] = "get"
          /\ pc[w2] = "updateStatus"

\* No worker has entered its loop.
NoWorkerRan == \A w \in Workers : pc[w] \in {"notStarted", "exited"} /\ wKey[w] = NoKey

C16_GateStep ==
    /\ (stopCh /\ ~hasSynced /\ runPc = "waitSync") => runPc' \in {"waitSync", "error"}
    /\ (stopCh /\ runPc = "waitSync") => NoWorkerRan'
    /\ (NoWorkerRan /\ runPc # "waitSync") => NoWorkerRan'
    /\ runPc = "error" => runPc' = "error"

EntryIn(tracker, key) ==
    IF key \in DOMAIN tracker THEN <<tracker[key]>> ELSE << >>

\* Every step taken while the syncServices of w is between its start and
\* the return of a failed UpdateStatus, that return included.
C17_FailureStep(w) ==
    ( /\ pc[w] \in {"sync", "updateStatus"}
      /\ \/ pc'[w] = "updateStatus"
         \/ pc[w] = "updateStatus" /\ pc'[w] = "handleErr" /\ wErr'[w] # "nil" )
    => /\ EntryIn(serviceTracker', wKey[w]) = EntryIn(serviceTracker, wKey[w])
       /\ pc'[w] = "handleErr" => wErr'[w] = "errUpdate"

\* C17: when UpdateStatus fails inside syncServices, on the assignment path
\* or on the status-clear path, syncServices returns that error and the
\* tracker holds for the key what it held before the call: no entry is
\* inserted on a failed assignment, the entry is kept on a failed clear.
C17_TrackerUnchangedOnFailure == [][\A w \in Workers : C17_FailureStep(w)]_vars

\* The UpdateStatus of a status clear failed and syncServices returned the
\* error: the entry of the key is still in the tracker.
C17_Witness ==
    \E w \in Workers :
        /\ pc[w] = "handleErr"
        /\ wErr[w] = "errUpdate"
        /\ wPath[w] = "clear"
        /\ wKey[w] \in DOMAIN serviceTracker

\* Worker w takes a step of syncServices.
SyncStep(w) == InSync(w) /\ pc'[w] # pc[w]

\* C18: no execution of syncServices, successful or failed, changes the
\* object the informer cache holds for any key: the cached status changes
\* only through watch notifications.
C18_CacheReadOnly == [][\A w \in Workers : SyncStep(w) => cache' = cache]_vars

\* C19: every entry stored in serviceTracker has a non-empty hostname and a
\* non-empty internal address, so that the zero-value test of the
\* ineligible branch reports "untracked" exactly for the keys without entry.
C19_EntriesNonEmpty ==
    /\ \A key \in DOMAIN serviceTracker :
          /\ serviceTracker[key].hostname # ""
          /\ serviceTracker[key].service # ""
    /\ \A key \in AllKeys :
          isUntracked(getServiceIngress(key)) <=> key \notin DOMAIN serviceTracker

\* The entry of key holds the hostname the assignment path computes for it.
Assigned(key) ==
    /\ key \in DOMAIN serviceTracker
    /\ serviceTracker[key].hostname = lbHostname(ServiceOf(key))

\* C20: two distinct keys tracked through the assignment path never hold
\* the same hostname in the tracker.
C20_HostnameUnique ==
    \A key1, key2 \in Keys :
        (key1 # key2 /\ Assigned(key1) /\ Assigned(key2))
            => serviceTracker[key1].hostname # serviceTracker[key2].hostname

====
